---- MODULE Spec2Model ----
(***************************************************************************)
(* Model of src/src/Octopus.Api.Client/fix_swagger.py: the script loads    *)
(* swagger.json.new, deletes the "200" response of every operation that    *)
(* also has a "201" response and whose "200" content is empty, writes the  *)
(* document to swagger.json and prints what it did.                        *)
(*                                                                         *)
(* A JSON value is a record [k, s, e]: k is the kind, s the text of a      *)
(* string, e the entries of a container as a sequence of <<key, value>>    *)
(* pairs in insertion order (a list's items carry the key "").             *)
(***************************************************************************)
EXTENDS Integers, Sequences, FiniteSets, TLC

\* ---------------------------------------------------------------- bounds
\* Largest number of method entries (weights) in a document built from CoreOps.
MaxOps == 2
\* Largest number of consecutive runs (the second consumes the first's output).
MaxRuns == 2

\* ----------------------------------------------------------- JSON values
V(k, s, e) == [k |-> k, s |-> s, e |-> e]
Null == V("null", "", <<>>)
False == V("false", "", <<>>)
True == V("true", "", <<>>)
Zero == V("zero", "", <<>>)
One == V("number", "", <<>>)
Str(s) == V("str", s, <<>>)
EmptyStr == Str("")
List(items) == V("list", "", [n \in DOMAIN items |-> <<"", items[n]>>])
EmptyList == List(<<>>)
Map(entries) == V("map", "", entries)
EmptyMap == Map(<<>>)
\* The value of a name that has not been assigned yet.
NoDoc == V("unbound", "", <<>>)

\* ------------------------------------------------- Python's operations
\* isinstance(v, dict)
IsDict(v) == v.k = "map"

\* Python truth value of a parsed JSON value (`not v` is ~Truthy(v)).
Truthy(v) ==
  CASE v.k \in {"null", "false", "zero"} -> FALSE
    [] v.k \in {"true", "number"} -> TRUE
    [] v.k = "str" -> v.s # ""
    [] OTHER -> Len(v.e) > 0

\* key in d, for a dict d
HasKey(d, key) == \E n \in DOMAIN d.e : d.e[n][1] = key

\* position of key among the entries of the dict d
IndexOf(d, key) == CHOOSE n \in DOMAIN d.e : d.e[n][1] = key

\* d[key], for a dict d that has the key
GetItem(d, key) == d.e[IndexOf(d, key)][2]

\* d.get(key, default)
DictGet(d, key, default) == IF HasKey(d, key) THEN GetItem(d, key) ELSE default

\* str.__contains__ on the strings of the model
StrContains(s, sub) ==
  \/ s = sub
  \/ sub = ""
  \/ s = "201200" /\ sub \in {"201", "200", "120", "012", "20", "01", "12", "00", "2", "0", "1"}

\* Whether `key in x` can be evaluated at all: it raises TypeError on None,
\* bool and numbers.
SupportsIn(x) == x.k \in {"map", "list", "str"}

\* key in x, for a dict, list or str x
In(key, x) ==
  CASE x.k = "map" -> HasKey(x, key)
    [] x.k = "list" -> \E n \in DOMAIN x.e : x.e[n][2] = Str(key)
    [] x.k = "str" -> StrContains(x.s, key)
    [] OTHER -> FALSE

\* del d[key]: the entries before the key, then the entries after it
DelKeyNoop(d, key) == d
DelKeyAndRest(d, key) == Map(SubSeq(d.e, 1, IndexOf(d, key) - 1))
DelKey(d, key) ==
  LET n == IndexOf(d, key)
  IN Map(SubSeq(d.e, 1, n - 1) \o SubSeq(d.e, n + 1, Len(d.e)))

\* The dict d after d[d's n-th key] = val (the value is mutated in place).
SetNth(d, n, val) == Map([d.e EXCEPT ![n] = <<d.e[n][1], val>>])

\* str.upper() on the method names of the model
Upper(s) ==
  CASE s = "post" -> "POST"
    [] s = "get" -> "GET"
    [] s = "Put" -> "PUT"
    [] OTHER -> s

\* ---------------------------------------------------------- the script
\* '201' in responses and '200' in responses   (line 17)
HasBothOnly200(responses) == In("200", responses)
HasBoth(responses) == In("201", responses) /\ In("200", responses)

\* not content or (isinstance(content, dict) and 'application/json' in
\* content and not content['application/json'])   (lines 22-24)
RemovalTestStrict(content) ==
  \/ IsDict(content) /\ Len(content.e) = 0
  \/ /\ IsDict(content)
     /\ HasKey(content, "application/json")
     /\ ~Truthy(GetItem(content, "application/json"))
RemovalTest(content) ==
  \/ ~Truthy(content)
  \/ /\ IsDict(content)
     /\ HasKey(content, "application/json")
     /\ ~Truthy(GetItem(content, "application/json"))

\* What lines 14-27 do with one method entry: "skip", "remove", or the
\* exception they raise.
Outcome(details) ==
  IF ~(IsDict(details) /\ HasKey(details, "responses")) THEN "skip"
  ELSE LET responses == GetItem(details, "responses") IN
    IF ~SupportsIn(responses) THEN "TypeError"
    ELSE IF ~HasBoth(responses) THEN "skip"
    ELSE IF ~IsDict(responses) THEN "TypeError"
    ELSE LET r200 == GetItem(responses, "200") IN
      IF ~IsDict(r200) THEN "skip"
      ELSE IF RemovalTest(DictGet(r200, "content", EmptyMap)) THEN "remove"
      ELSE "skip"

\* count += 1 happens only inside the removal branch (line 26)
NewCountEveryOp(c, outcome) == c + 1
NewCount(c, outcome) == IF outcome = "remove" THEN c + 1 ELSE c

\* A line of standard output.
Line(kind, method, path, n) == [kind |-> kind, method |-> method, path |-> path, n |-> n]

\* print(f"Removed empty 200 from {method.upper()} {path}")   (line 27)
RemovedLineAsIs(method, path) == Line("removed", method, path, 0)
RemovedLine(method, path) == Line("removed", Upper(method), path, 0)

\* print(f"Fixed {count} endpoints. Saved to swagger.json")   (line 31)
SummaryLine(c) == Line("summary", "", "swagger.json", c)

\* A file: missing, not JSON, or the JSON text of a document.
File(st, doc) == [st |-> st, doc |-> doc]
NoFile == File("missing", NoDoc)
GarbageFile == File("garbage", NoDoc)
JsonFile(doc) == File("json", doc)

\* json.load(open('swagger.json.new')): the document, or the exception
ParseLenient(f) == IF f.st = "json" THEN [err |-> "", doc |-> f.doc] ELSE [err |-> "", doc |-> EmptyMap]
Parse(f) ==
  CASE f.st = "missing" -> [err |-> "FileNotFoundError", doc |-> NoDoc]
    [] f.st = "garbage" -> [err |-> "JSONDecodeError", doc |-> NoDoc]
    [] OTHER -> [err |-> "", doc |-> f.doc]

\* spec.get('paths', {})
PathsOf(doc) == DictGet(doc, "paths", EmptyMap)

\* --------------------------------------------------- the input documents
AJ == "application/json"
TP == "text/plain"
Schema == Map(<<<<"type", Str("object")>>>>)
FalsyValues == {Null, False, Zero, EmptyStr, EmptyList, EmptyMap}

ContentValues ==
  FalsyValues
  \cup {Str(AJ), List(<<Str(AJ)>>), One}
  \cup {Map(<<<<AJ, f>>>>) : f \in FalsyValues}
  \cup {Map(<<<<AJ, Schema>>>>), Map(<<<<TP, Schema>>>>), Map(<<<<TP, EmptyMap>>>>),
        Map(<<<<AJ, EmptyMap>>, <<TP, Schema>>>>),
        Map(<<<<TP, Schema>>, <<AJ, Schema>>>>)}

Resp(c) == Map(<<<<"description", Str("OK")>>, <<"content", c>>>>)
RespNoContent == Map(<<<<"description", Str("OK")>>>>)
R201 == Resp(Map(<<<<AJ, Map(<<<<"schema", EmptyMap>>>>)>>>>))
Resp200Values == {RespNoContent, True, Null} \cup {Resp(c) : c \in ContentValues}

ResponsesValues ==
  {Map(<<<<"200", r>>, <<"201", R201>>>>) : r \in Resp200Values}
  \cup {Map(<<<<"201", R201>>, <<"200", RespNoContent>>, <<"404", RespNoContent>>>>),
        Map(<<<<"200", RespNoContent>>>>),
        Map(<<<<"200", Resp(Map(<<<<AJ, Schema>>>>))>>>>),
        Map(<<<<"201", R201>>>>),
        Map(<<<<"404", RespNoContent>>>>),
        EmptyMap, Null, One, EmptyList,
        List(<<Str("201"), Str("200")>>),
        Str("ok"), Str("201200")}

Op(r) == Map(<<<<"summary", Str("op")>>, <<"responses", r>>, <<"tags", EmptyList>>>>)

\* Every shape of method entry, used in documents of one path and one method.
FullOps ==
  {Op(r) : r \in ResponsesValues}
  \cup {Map(<<<<"summary", Str("op")>>>>), EmptyList, Str("x")}

\* The method entries that documents of several entries are built from.
CoreOps ==
  { Op(Map(<<<<"200", RespNoContent>>, <<"201", R201>>>>)),
    Op(Map(<<<<"200", Resp(Map(<<<<AJ, EmptyMap>>, <<TP, Schema>>>>))>>, <<"201", R201>>>>)),
    Op(Map(<<<<"200", Resp(Map(<<<<AJ, Schema>>>>))>>, <<"201", R201>>>>)),
    Op(Map(<<<<"200", RespNoContent>>>>)),
    Op(Null),
    EmptyList }

MethodNames == <<"post", "get", "Put", "PATCH">>
PathNames == <<"/x", "/y", "/z", "/w">>

\* The mappings of m methods to method entries drawn from ops.
MethodMaps(ops, m) ==
  {Map([b \in 1..m |-> <<MethodNames[b], f[b]>>]) : f \in [1..m -> ops]}

\* The values of a path entry that weigh w.
PathValsOfWeight(w) ==
  IF w = 1 THEN {EmptyMap, Null} \cup MethodMaps(CoreOps, 1) ELSE MethodMaps(CoreOps, w)

\* The sequences of path values that weigh at most budget in total.
RECURSIVE PathSeqs(_)
PathSeqs(budget) ==
  {<<>>} \cup UNION {
    {<<v>> \o rest : v \in PathValsOfWeight(w), rest \in PathSeqs(budget - w)}
    : w \in 1..budget}

NamedPaths(vals) == Map([a \in DOMAIN vals |-> <<PathNames[a], vals[a]>>])

DocWith(paths) ==
  Map(<<<<"openapi", Str("3.0.1")>>, <<"paths", paths>>, <<"info", EmptyMap>>>>)

Docs ==
  {DocWith(NamedPaths(vals)) : vals \in PathSeqs(MaxOps)}
  \cup {DocWith(NamedPaths(<<m>>)) : m \in MethodMaps(FullOps, 1)}
  \cup {DocWith(Null), Map(<<<<"openapi", Str("3.0.1")>>>>), EmptyMap, EmptyList}

\* ------------------------------------------------------------- the state
VARIABLES
  inFile,       \* swagger.json.new
  outFile,      \* swagger.json
  outWritable,  \* whether open('swagger.json', 'w') succeeds
  spec,         \* the parsed document, mutated in place
  count,        \* the script's counter
  pc,           \* where the script is
  i,            \* position of the outer loop among the paths
  j,            \* position of the inner loop among the path's methods
  stdout,       \* the lines printed by the current run
  err,          \* the exception that ended the run, "" if none
  run,          \* which run this is
  history       \* the count reported by each earlier run

vars == <<inFile, outFile, outWritable, spec, count, pc, i, j, stdout, err, run, history>>

Init ==
  /\ inFile \in {NoFile, GarbageFile} \cup {JsonFile(d) : d \in Docs}
  /\ outFile \in {NoFile, JsonFile(Str("previous output"))}
  /\ outWritable \in BOOLEAN
  /\ spec = NoDoc
  /\ count = 0
  /\ pc = "load"
  /\ i = 0
  /\ j = 0
  /\ stdout = <<>>
  /\ err = ""
  /\ run = 1
  /\ history = <<>>

\* The run ends with an unhandled exception.
Raise(e) == pc' = "aborted" /\ err' = e

\* Lines 7-10: open and parse the input, count = 0.
Load ==
  /\ pc = "load"
  /\ LET p == Parse(inFile) IN
       IF p.err # ""
       THEN /\ Raise(p.err)
            /\ UNCHANGED <<spec, count>>
       ELSE /\ spec' = p.doc
            /\ count' = 0
            /\ pc' = "paths"
            /\ err' = err
  /\ UNCHANGED <<inFile, outFile, outWritable, i, j, stdout, run, history>>

\* Line 12, the loop's iterable: spec.get('paths', {}).items()
BeginPass ==
  /\ pc = "paths"
  /\ IF ~IsDict(spec) \/ ~IsDict(PathsOf(spec))
     THEN Raise("AttributeError") /\ i' = i
     ELSE pc' = "outer" /\ i' = 1 /\ err' = err
  /\ UNCHANGED <<inFile, outFile, outWritable, spec, count, j, stdout, run, history>>

\* Lines 12-13: the next path, and its methods.items(); or the end of the pass.
NextPath ==
  /\ pc = "outer"
  /\ IF i > Len(PathsOf(spec).e)
     THEN pc' = "write" /\ j' = j /\ err' = err
     ELSE IF ~IsDict(PathsOf(spec).e[i][2])
          THEN Raise("AttributeError") /\ j' = j
          ELSE pc' = "inner" /\ j' = 1 /\ err' = err
  /\ UNCHANGED <<inFile, outFile, outWritable, spec, count, i, stdout, run, history>>

\* Line 13: the path's methods are exhausted.
EndMethods ==
  /\ pc = "inner"
  /\ j > Len(PathsOf(spec).e[i][2].e)
  /\ pc' = "outer"
  /\ i' = i + 1
  /\ j' = 0
  /\ UNCHANGED <<inFile, outFile, outWritable, spec, count, stdout, err, run, history>>

\* Lines 13-27: the loop body for one method entry.
Step ==
  /\ pc = "inner"
  /\ j <= Len(PathsOf(spec).e[i][2].e)
  /\ LET paths == PathsOf(spec)
         path == paths.e[i][1]
         methods == paths.e[i][2]
         method == methods.e[j][1]
         details == methods.e[j][2]
         outcome == Outcome(details)
     IN
       IF outcome \in {"TypeError"}
       THEN /\ Raise(outcome)
            /\ UNCHANGED <<spec, count, stdout, j>>
       ELSE /\ pc' = pc
            /\ err' = err
            /\ j' = j + 1
            /\ count' = NewCount(count, outcome)
            /\ IF outcome = "remove"
               THEN LET responses == GetItem(details, "responses")
                        details2 == SetNth(details, IndexOf(details, "responses"),
                                           DelKey(responses, "200"))
                        methods2 == SetNth(methods, j, details2)
                        paths2 == SetNth(paths, i, methods2)
                    IN /\ spec' = SetNth(spec, IndexOf(spec, "paths"), paths2)
                       /\ stdout' = Append(stdout, RemovedLine(method, path))
               ELSE UNCHANGED <<spec, stdout>>
  /\ UNCHANGED <<inFile, outFile, outWritable, i, run, history>>

\* Lines 29-30: open the output for writing and dump the document.
WriteLenient ==
  /\ pc = "write"
  /\ pc' = "summary"
  /\ outFile' = IF outWritable THEN JsonFile(spec) ELSE outFile
  /\ UNCHANGED <<inFile, outWritable, spec, count, i, j, stdout, err, run, history>>
Write ==
  /\ pc = "write"
  /\ IF ~outWritable
     THEN Raise("PermissionError") /\ outFile' = outFile
     ELSE pc' = "summary" /\ outFile' = JsonFile(spec) /\ err' = err
  /\ UNCHANGED <<inFile, outWritable, spec, count, i, j, stdout, run, history>>

\* Line 31: the summary line.
PrintSummary ==
  /\ pc = "summary"
  /\ stdout' = Append(stdout, SummaryLine(count))
  /\ pc' = "done"
  /\ UNCHANGED <<inFile, outFile, outWritable, spec, count, i, j, err, run, history>>

\* The operator renames swagger.json back to swagger.json.new and runs the
\* script again.
Rerun ==
  /\ pc = "done"
  /\ run < MaxRuns
  /\ inFile' = outFile
  /\ outFile' = NoFile
  /\ spec' = NoDoc
  /\ count' = 0
  /\ pc' = "load"
  /\ i' = 0
  /\ j' = 0
  /\ stdout' = <<>>
  /\ run' = run + 1
  /\ history' = Append(history, count)
  /\ UNCHANGED <<outWritable, err>>

Next ==
  \/ Load
  \/ BeginPass
  \/ NextPath
  \/ EndMethods
  \/ Step
  \/ Write
  \/ PrintSummary
  \/ Rerun

Spec == Init /\ [][Next]_vars

\* ------------------------------------------------ reading the documents
\* The document the current run read.
InDoc == inFile.doc

\* The run has parsed its input.
Loaded == spec # NoDoc

\* <<a, b>> for every method entry b of every path a whose value is a mapping.
OpPositions(doc) ==
  IF IsDict(doc) /\ IsDict(PathsOf(doc))
  THEN LET P == PathsOf(doc) IN
       UNION {{<<a, b>> : b \in DOMAIN P.e[a][2].e} : a \in {a \in DOMAIN P.e : IsDict(P.e[a][2])}}
  ELSE {}

EntryAt(doc, pos) == PathsOf(doc).e[pos[1]][2].e[pos[2]][2]

\* An operation: a method entry that is a mapping with a "responses" key.
IsOperation(d) == IsDict(d) /\ HasKey(d, "responses")

\* The method entry is an operation whose responses mapping has the status code.
HasCode(d, code) ==
  /\ IsOperation(d)
  /\ IsDict(GetItem(d, "responses"))
  /\ HasKey(GetItem(d, "responses"), code)

CodeOf(d, code) == GetItem(GetItem(d, "responses"), code)

\* The loops have gone past the method entry.
Passed(pos) == pos[1] < i \/ (pos[1] = i /\ pos[2] < j)

\* The entry had a "200" response in the input and has none in doc2.
DeletedIn(doc2, pos) == HasCode(EntryAt(InDoc, pos), "200") /\ ~HasCode(EntryAt(doc2, pos), "200")

\* The removal condition with "content is empty" read as: a container
\* without entries.
ConditionAsStated(d) ==
  /\ HasCode(d, "201")
  /\ HasCode(d, "200")
  /\ LET r == CodeOf(d, "200") IN
       /\ IsDict(r)
       /\ \/ ~HasKey(r, "content")
          \/ LET c == GetItem(r, "content") IN
               \/ c.k \in {"map", "list"} /\ Len(c.e) = 0
               \/ IsDict(c) /\ HasKey(c, AJ) /\ GetItem(c, AJ) \in FalsyValues

\* The removal condition with "content is empty" read as: any falsy value.
ConditionFalsy(d) ==
  /\ HasCode(d, "201")
  /\ HasCode(d, "200")
  /\ LET r == CodeOf(d, "200") IN
       /\ IsDict(r)
       /\ \/ ~HasKey(r, "content")
          \/ LET c == GetItem(r, "content") IN
               \/ c \in FalsyValues
               \/ IsDict(c) /\ HasKey(c, AJ) /\ GetItem(c, AJ) \in FalsyValues

\* The operations of the input the run has gone past.
PassedOps ==
  IF Loaded
  THEN {pos \in OpPositions(InDoc) : Passed(pos) /\ IsOperation(EntryAt(InDoc, pos))}
  ELSE {}

\* d without its entry for key.
WithoutKey(d, key) == Map(SelectSeq(d.e, LAMBDA p : p[1] # key))

\* The method entry as the claims expect it in the output.
ExpectedEntry(d) ==
  IF IsOperation(d) /\ ConditionFalsy(d)
  THEN Map([n \in DOMAIN d.e |->
              IF d.e[n][1] = "responses"
              THEN <<"responses", WithoutKey(d.e[n][2], "200")>>
              ELSE d.e[n]])
  ELSE d

ExpectedMethods(M) == Map([b \in DOMAIN M.e |-> <<M.e[b][1], ExpectedEntry(M.e[b][2])>>])

ExpectedPaths(P) == Map([a \in DOMAIN P.e |-> <<P.e[a][1], ExpectedMethods(P.e[a][2])>>])

\* The input with exactly the "200" entries that meet the condition deleted.
ExpectedDoc(doc) ==
  Map([n \in DOMAIN doc.e |->
         IF doc.e[n][1] = "paths" THEN <<"paths", ExpectedPaths(doc.e[n][2])>> ELSE doc.e[n]])

\* The removal lines for the entries deleted in doc2, in traversal order,
\* from method b of path a on.
RECURSIVE PathLines(_, _, _)
PathLines(doc2, a, b) ==
  LET P == PathsOf(InDoc)
      M == P.e[a][2]
  IN IF b > Len(M.e) THEN <<>>
     ELSE (IF DeletedIn(doc2, <<a, b>>)
           THEN <<Line("removed", Upper(M.e[b][1]), P.e[a][1], 0)>>
           ELSE <<>>) \o PathLines(doc2, a, b + 1)

RECURSIVE DocLines(_, _)
DocLines(doc2, a) ==
  IF a > Len(PathsOf(InDoc).e) THEN <<>>
  ELSE PathLines(doc2, a, 1) \o DocLines(doc2, a + 1)

\* The run wrote its output.
Written == pc \in {"summary", "done"}

\* The number of operations of the input.
OpsProcessed ==
  Cardinality({pos \in OpPositions(InDoc) : IsOperation(EntryAt(InDoc, pos))})

\* The numbers the summary reports.
ReportedNumbers == {stdout[n].n : n \in {m \in DOMAIN stdout : stdout[m].kind = "summary"}}

\* ------------------------------------------------------------ the claims

\* C1 as stated: every operation the pass has gone past lost its "200" entry
\* if and only if responses has "201" and "200", the "200" value is a mapping,
\* and its content is absent, or present with no entries, or a mapping whose
\* "application/json" value is falsy.
C1_AsStated ==
  \A pos \in PassedOps : DeletedIn(spec, pos) <=> ConditionAsStated(EntryAt(InDoc, pos))

\* C1 amended: every operation the pass has gone past lost its "200" entry if
\* and only if responses has "201" and "200", the "200" value is a mapping, and
\* its content is absent, or falsy (null, false, zero, "", [] or {}), or a
\* mapping whose "application/json" value is falsy.
C1_RemovalIffFalsy ==
  \A pos \in PassedOps : DeletedIn(spec, pos) <=> ConditionFalsy(EntryAt(InDoc, pos))

C1_Witness ==
  \E pos \in PassedOps :
    /\ DeletedIn(spec, pos)
    /\ HasKey(CodeOf(EntryAt(InDoc, pos), "200"), "content")
    /\ GetItem(CodeOf(EntryAt(InDoc, pos), "200"), "content") = Null

\* C2: the written document is the input with exactly the "200" entries that
\* meet the removal condition deleted, the count is their number, entries the
\* pass has not reached are as in the input, and a mapping without "paths" is
\* written back unchanged with count 0 (nothing but the write can fail).
C2_FrameEffect ==
  /\ Written =>
       /\ outFile = JsonFile(ExpectedDoc(InDoc))
       /\ count = Cardinality({pos \in PassedOps : ConditionFalsy(EntryAt(InDoc, pos))})
  /\ Loaded =>
       \A pos \in OpPositions(InDoc) :
         \/ EntryAt(spec, pos) = EntryAt(InDoc, pos)
         \/ Passed(pos) /\ EntryAt(spec, pos) = ExpectedEntry(EntryAt(InDoc, pos))
  /\ (IsDict(InDoc) /\ ~HasKey(InDoc, "paths")) =>
       /\ err \in {"", "PermissionError"}
       /\ Written => (outFile = inFile /\ count = 0)

C2_Witness ==
  /\ pc = "done"
  /\ \E pos \in PassedOps : DeletedIn(outFile.doc, pos)
  /\ \E pos \in PassedOps :
       /\ HasCode(EntryAt(outFile.doc, pos), "200")
       /\ EntryAt(outFile.doc, pos) = EntryAt(InDoc, pos)

\* C3: a run on the output of a completed run removes nothing, prints no
\* removal line, does not fail and writes a document equal to its input.
C3_Idempotent ==
  run >= 2 =>
    /\ count = 0
    /\ \A n \in DOMAIN stdout : stdout[n].kind # "removed"
    /\ err = ""
    /\ Written => outFile = inFile
    /\ pc = "done" => stdout = <<SummaryLine(0)>>

C3_Witness == run = 2 /\ pc = "done" /\ history[1] > 0

\* C4: whenever the pass has deleted a "200" entry, no media type of that
\* response's content maps to a non-empty value.
C4_OnlyEmptyRemoved ==
  \A pos \in PassedOps :
    DeletedIn(spec, pos) =>
      LET c == DictGet(CodeOf(EntryAt(InDoc, pos), "200"), "content", EmptyMap)
      IN IsDict(c) => \A n \in DOMAIN c.e : c.e[n][2] \in FalsyValues

\* C5: once the input has parsed, nothing inside the document makes the run
\* raise: a run that aborts does so only at the write.
C5_NoStructuralError ==
  (inFile.st = "json" /\ pc = "aborted") => err = "PermissionError"

\* C6: with the input missing or not JSON the run aborts at the load, prints
\* nothing and leaves the output file as it was; and the output file is
\* written only once the pass has gone through all paths.
C6_ParseErrorAborts ==
  /\ [](inFile.st # "json" =>
          /\ pc \in {"load", "aborted"}
          /\ spec = NoDoc
          /\ stdout = <<>>
          /\ pc = "aborted" => err \in {"FileNotFoundError", "JSONDecodeError"})
  /\ [][inFile.st # "json" => outFile' = outFile]_vars
  /\ [][(outFile' # outFile /\ pc # "done") =>
          (pc = "write" /\ i > Len(PathsOf(spec).e))]_vars

C6_Witness ==
  /\ pc = "aborted"
  /\ err = "JSONDecodeError"
  /\ outFile = JsonFile(Str("previous output"))

\* C7: on a completed run standard output is one removal line per deleted
\* "200" entry (method upper-cased, path verbatim, in traversal order) and then
\* one summary line whose count is the number of removal lines and of deleted
\* entries.
C7_Output ==
  pc = "done" =>
    LET lines == DocLines(outFile.doc, 1) IN
      /\ stdout = lines \o <<Line("summary", "", "swagger.json", Len(lines))>>
      /\ count = Len(lines)
      /\ count = Cardinality({pos \in PassedOps : DeletedIn(outFile.doc, pos)})

C7_Witness ==
  /\ pc = "done"
  /\ Len(stdout) = 3
  /\ stdout[1] = Line("removed", "POST", "/x", 0)
  /\ stdout[2].kind = "removed"

\* C8 as stated: a completed run reports the total number of operations
\* processed.
C8_ReportsOperationCount == pc = "done" => OpsProcessed \in ReportedNumbers

\* C8 amended: the only number a completed run reports is the count of deleted
\* "200" entries; the number of operations processed is not reported.
C8_ReportsOnlyRemovedCount ==
  pc = "done" =>
    LET deleted == Cardinality({pos \in PassedOps : DeletedIn(outFile.doc, pos)}) IN
      /\ ReportedNumbers = {deleted}
      /\ Cardinality({n \in DOMAIN stdout : stdout[n].kind = "summary"}) = 1
      /\ OpsProcessed # deleted => OpsProcessed \notin ReportedNumbers

C8_Witness == pc = "done" /\ OpsProcessed = 2 /\ ReportedNumbers = {1}

\* C9: when the output cannot be opened the run aborts after the whole pass,
\* with every removal line printed and no summary line, and the input file is
\* never changed by a run; the summary line is printed only after the document
\* has been written.
C9_WriteErrorAfterPass ==
  /\ [](err = "PermissionError" =>
          /\ pc = "aborted"
          /\ i > Len(PathsOf(spec).e)
          /\ stdout = DocLines(spec, 1))
  /\ [](~outWritable => ~Written)
  /\ []((\E n \in DOMAIN stdout : stdout[n].kind = "summary") => outFile = JsonFile(spec))
  /\ [][pc # "done" => inFile' = inFile]_vars

C9_Witness == err = "PermissionError" /\ Len(stdout) >= 1

\* C10: a "201" entry is never deleted or altered, an operation that lost its
\* "200" entry still has its "201" entry, and no operation with a "200" or
\* "201" response in the input has neither in the written document.
C10_Keeps201 ==
  /\ Loaded =>
       \A pos \in OpPositions(InDoc) :
         LET din == EntryAt(InDoc, pos)
             dnow == EntryAt(spec, pos)
         IN /\ HasCode(din, "201") =>
                 (HasCode(dnow, "201") /\ CodeOf(dnow, "201") = CodeOf(din, "201"))
            /\ DeletedIn(spec, pos) => HasCode(dnow, "201")
  /\ Written =>
       \A pos \in OpPositions(InDoc) :
         LET din == EntryAt(InDoc, pos)
             dout == EntryAt(outFile.doc, pos)
         IN /\ (HasCode(din, "200") \/ HasCode(din, "201")) =>
                 (HasCode(dout, "200") \/ HasCode(dout, "201"))
            /\ HasCode(din, "201") =>
                 (HasCode(dout, "201") /\ CodeOf(dout, "201") = CodeOf(din, "201"))

C10_Witness ==
  /\ pc = "done"
  /\ \E pos \in PassedOps :
       DeletedIn(outFile.doc, pos) /\ HasCode(EntryAt(outFile.doc, pos), "201")

====
